---- MODULE Spec2Model ----
(***************************************************************************)
(* A model of the router's logging core (src/src/log.c): the level table,  *)
(* the reference-counted sink registry, the source registry, the emit      *)
(* pipeline (qd_vlog_impl / write_log), the bounded history of entries and *)
(* the management operations (qd_log_entity, qd_log_source_reset,          *)
(* qd_log_recent_py).                                                      *)
(*                                                                         *)
(* C strings that the code inspects character by character (module names,  *)
(* level names, enable specifications) are sequences of one-character      *)
(* strings.  Strings the code only compares with strcmp (sink names) are   *)
(* TLA+ strings.  A qd_log_source_t* is the source's position in           *)
(* source_list (0 is the null pointer); a log_sink_t* is the sink's name   *)
(* (NULL is the null pointer).                                             *)
(***************************************************************************)
EXTENDS Integers, Sequences, FiniteSets, TLC

\* ------------------------------------------------------------------ bounds

\* Capacity of the history buffer.  log.c:39 sets LIST_MAX to 1000; the model
\* scales it down so that eviction happens within the explored runs.
LIST_MAX == 2

\* Number of management operations (create, reset, update) explored per run.
MaxCfg == 2

\* Number of emit calls explored per run where the configuration changes too.
MaxEmitCfg == 1

\* Number of threads that call qd_vlog_impl concurrently.
NThreads == 2

\* Number of emit calls explored per run: enough to overflow the history.
MaxEmit == LIST_MAX + 1

\* ------------------------------------------------------------ C strings

NULL == "NULL"

UPPER == <<"A","B","C","D","E","F","G","H","I","J","K","L","M",
           "N","O","P","Q","R","S","T","U","V","W","X","Y","Z">>

LOWER == <<"a","b","c","d","e","f","g","h","i","j","k","l","m",
           "n","o","p","q","r","s","t","u","v","w","x","y","z">>

\* tolower over the characters that occur in the model's strings.
tolower_table ==
    [c \in {UPPER[i] : i \in 1..Len(UPPER)} |->
        LOWER[CHOOSE i \in 1..Len(UPPER) : UPPER[i] = c]]

tolower(c) == IF c \in DOMAIN tolower_table THEN tolower_table[c] ELSE c

Min(a, b) == IF a < b THEN a ELSE b

\* The first n characters of s (all of s when it is shorter), lower-cased.
LowerPrefix(s, n) == [i \in 1..Min(n, Len(s)) |-> tolower(s[i])]

\* strcasecmp(a, b) == 0
strcasecmp_eq(a, b) == LowerPrefix(a, Len(a)) = LowerPrefix(b, Len(b))

\* strncasecmp(a, b, n) == 0: at most n characters are compared, and the
\* comparison stops at the end of the shorter string.
strncasecmp_eq(a, b, n) == LowerPrefix(a, n) = LowerPrefix(b, n)

\* --------------------------------------------------------- bit arithmetic
\* int values of the program are -1 (all bits set) or small non-negative
\* numbers; & and | are computed bit by bit.

RECURSIVE AndNat(_, _)
AndNat(a, b) ==
    IF a = 0 \/ b = 0 THEN 0
    ELSE (IF a % 2 = 1 /\ b % 2 = 1 THEN 1 ELSE 0) + 2 * AndNat(a \div 2, b \div 2)

RECURSIVE OrNat(_, _)
OrNat(a, b) ==
    IF a = 0 THEN b
    ELSE IF b = 0 THEN a
    ELSE (IF a % 2 = 1 \/ b % 2 = 1 THEN 1 ELSE 0) + 2 * OrNat(a \div 2, b \div 2)

BitAnd(a, b) == IF a = -1 THEN b ELSE IF b = -1 THEN a ELSE AndNat(a, b)

BitOr(a, b) == IF a = -1 \/ b = -1 THEN -1 ELSE OrNat(a, b)

\* ------------------------------------------------------------ level table

QD_LOG_NONE == 0
QD_LOG_TRACE == 1
QD_LOG_DEBUG == 2
QD_LOG_INFO == 4
QD_LOG_NOTICE == 8
QD_LOG_WARNING == 16
QD_LOG_ERROR == 32
QD_LOG_CRITICAL == 64

\* level_index_t; the table below is 1-based, so levels[i + 1] is the C levels[i].
DEFAULT == 0
NONE == 1
TRACE == 2
DEBUG == 3
INFO == 4
NOTICE == 5
WARNING == 6
ERROR == 7
CRITICAL == 8
N_LEVELS == 9

MIN_VALID_LEVEL_INDEX == TRACE
MAX_VALID_LEVEL_INDEX == CRITICAL
N_LEVEL_INDICES == MAX_VALID_LEVEL_INDEX - MIN_VALID_LEVEL_INDEX + 1

ALL_BITS == BitOr(QD_LOG_CRITICAL, QD_LOG_CRITICAL - 1)

\* The LEVEL macro: { name, QD_LOG, ALL_BITS & ~(QD_LOG-1), SYSLOG }
LEVEL(name, bit) ==
    [name |-> name, bit |-> bit, mask |-> ALL_BITS - BitAnd(ALL_BITS, bit - 1)]

levels == <<
    [name |-> <<"d","e","f","a","u","l","t">>, bit |-> -1, mask |-> -1],
    [name |-> <<"n","o","n","e">>, bit |-> 0, mask |-> 0],
    LEVEL(<<"t","r","a","c","e">>, QD_LOG_TRACE),
    LEVEL(<<"d","e","b","u","g">>, QD_LOG_DEBUG),
    LEVEL(<<"i","n","f","o">>, QD_LOG_INFO),
    LEVEL(<<"n","o","t","i","c","e">>, QD_LOG_NOTICE),
    LEVEL(<<"w","a","r","n","i","n","g">>, QD_LOG_WARNING),
    LEVEL(<<"e","r","r","o","r">>, QD_LOG_ERROR),
    LEVEL(<<"c","r","i","t","i","c","a","l">>, QD_LOG_CRITICAL) >>

\* The C index (0-based) of the first table row at or after i whose flag in
\* `match` is set, or N_LEVELS when there is none: the loops of the lookups.
RECURSIVE FirstLevel(_, _)
FirstLevel(match, i) ==
    IF i >= N_LEVELS THEN N_LEVELS
    ELSE IF match[i + 1] THEN i
    ELSE FirstLevel(match, i + 1)

\* level_for_bit: the C index of the level, or N_LEVELS (NULL, qd_error set).
level_for_bit(bit) ==
    FirstLevel([k \in 1..N_LEVELS |-> levels[k].bit = bit], 0)

\* A lookup by name that distinguishes upper and lower case.
level_for_name_case_sensitive(name, len) ==
    FirstLevel([k \in 1..N_LEVELS |->
                   SubSeq(levels[k].name, 1, Min(len, Len(levels[k].name)))
                      = SubSeq(name, 1, Min(len, Len(name)))], 0)

\* level_for_name: the C index of the level, or N_LEVELS (NULL, qd_error set).
level_for_name(name, len) ==
    FirstLevel([k \in 1..N_LEVELS |-> strncasecmp_eq(levels[k].name, name, len)], 0)

\* level_index_for_bit: the histogram bucket 0..6, or -1 (qd_error set).
level_index_for_bit(bit) ==
    LET i == FirstLevel([k \in 1..N_LEVELS |-> levels[k].bit = bit],
                        MIN_VALID_LEVEL_INDEX)
    IN IF i <= MAX_VALID_LEVEL_INDEX THEN i - MIN_VALID_LEVEL_INDEX ELSE -1

\* level_name: the name at C index `level`, or NULL.
level_name(level) ==
    IF 0 <= level /\ level < N_LEVELS THEN levels[level + 1].name ELSE <<>>

SEPARATORS == {",", " ", ";", ":"}

\* strtok_r over the whole string: the maximal runs of non-separator characters.
RECURSIVE Tokens(_, _)
Tokens(s, cur) ==
    IF s = <<>> THEN (IF cur = <<>> THEN <<>> ELSE <<cur>>)
    ELSE IF Head(s) \in SEPARATORS
         THEN (IF cur = <<>> THEN <<>> ELSE <<cur>>) \o Tokens(Tail(s), <<>>)
         ELSE Tokens(Tail(s), Append(cur, Head(s)))

\* The loop of enable_mask over the remaining tokens: [mask, error].
RECURSIVE enable_mask_loop(_, _)
enable_mask_loop(tokens, mask) ==
    IF tokens = <<>> THEN [mask |-> mask, error |-> FALSE]
    ELSE LET token == Head(tokens)
             len == Len(token)
             plus == IF len > 0 /\ token[len] = "+" THEN 1 ELSE 0
             level == level_for_name(token, len - plus)
         IN IF level = N_LEVELS
            THEN [mask |-> -1, error |-> TRUE]
            ELSE enable_mask_loop(Tail(tokens),
                     BitOr(mask, IF plus = 1 THEN levels[level + 1].mask
                                             ELSE levels[level + 1].bit))

\* enable_mask: the returned int, and whether qd_error was set.
enable_mask(enable_) == enable_mask_loop(Tokens(enable_, <<>>), 0)

\* ------------------------------------------------------------------ state

VARIABLES
    source_list,         \* qd_log_source_list_t: the sources, in creation order
    default_log_source,  \* qd_log_source_t*: position in source_list, 0 if null
    logging_log_source,  \* qd_log_source_t*
    sink_list,           \* log_sink_list_t: the registered sinks
    streams,             \* the FILE streams of the process that are open
    syslog_open,         \* whether openlog() is in effect (no closelog() since)
    entries,             \* qd_log_list_t: the history, oldest first
    emitted,             \* history variable: every entry ever inserted, in order
    last,                \* the last call: its arguments, return value and sink I/O
    n_emit,              \* emit calls so far (numbers the message texts)
    n_cfg,               \* management operations so far
    log_lock,            \* sys_mutex_t log_lock: the thread that holds it, 0 if free
    threads,             \* per thread: where it is in qd_vlog_impl, and its locals
    query                \* the management thread inside qd_log_recent_py: its locals

vars == <<source_list, default_log_source, logging_log_source, sink_list,
          streams, syslog_open, entries, emitted, last, n_emit, n_cfg, log_lock, threads, query>>

SINK_STDOUT == "stdout"
SINK_STDERR == "stderr"
SINK_SYSLOG == "syslog"
SOURCE_DEFAULT == <<"D","E","F","A","U","L","T">>
SOURCE_LOGGING == <<"L","O","G","G","I","N","G">>

QD_ERROR_NONE == "QD_ERROR_NONE"
QD_ERROR_CONFIG == "QD_ERROR_CONFIG"

\* The files of the environment that fopen(name, "a") can open.
Writable == {"/var/log/qdrouterd.log"}

fopen(name) == IF name \in Writable THEN name ELSE NULL

\* ---------------------------------------------------------- sink registry
\* The sink operations act on R = [list, streams, syslog]: the sink list and
\* the part of the process state that opening and closing a sink changes.

\* find_log_sink_lh: the position of the sink named `name`, 0 if none.
find_log_sink_lh(list, name) ==
    IF \E i \in 1..Len(list) : list[i].name = name
    THEN CHOOSE i \in 1..Len(list) :
            /\ list[i].name = name
            /\ \A j \in 1..(i - 1) : list[j].name # name
    ELSE 0

RemoveAt(s, i) == SubSeq(s, 1, i - 1) \o SubSeq(s, i + 1, Len(s))

\* A release that closes and removes the sink whatever its count.
log_sink_free_lh_always(R, sink) ==
    LET i == find_log_sink_lh(R.list, sink) IN
    IF sink = NULL \/ i = 0 THEN R
    ELSE [list    |-> RemoveAt(R.list, i),
          streams |-> IF R.list[i].file # NULL /\ R.list[i].file # "stderr"
                      THEN R.streams \ {R.list[i].file}
                      ELSE R.streams,
          syslog  |-> IF R.list[i].syslog THEN FALSE ELSE R.syslog]

\* log_sink_free_lh
log_sink_free_lh(R, sink) ==
    LET i == find_log_sink_lh(R.list, sink) IN
    IF sink = NULL \/ i = 0 THEN R
    ELSE IF R.list[i].refcount - 1 = 0
         THEN [list    |-> RemoveAt(R.list, i),
               streams |-> IF R.list[i].file # NULL /\ R.list[i].file # "stderr"
                           THEN R.streams \ {R.list[i].file}
                           ELSE R.streams,
               syslog  |-> IF R.list[i].syslog THEN FALSE ELSE R.syslog]
         ELSE [R EXCEPT !.list[i].refcount = @ - 1]

\* log_sink_lh: [R, sink, error]; sink is NULL and error is set when the file
\* cannot be opened.
log_sink_lh(R, name) ==
    LET i      == find_log_sink_lh(R.list, name)
        syslog == name # SINK_STDERR /\ name # SINK_STDOUT /\ name = SINK_SYSLOG
        file   == IF name = SINK_STDERR THEN "stderr"
                  ELSE IF name = SINK_STDOUT THEN "stdout"
                  ELSE IF name = SINK_SYSLOG THEN NULL
                  ELSE fopen(name)
    IN IF i # 0
       THEN [R |-> [R EXCEPT !.list[i].refcount = @ + 1], sink |-> name, error |-> FALSE]
       ELSE IF file = NULL /\ ~syslog
            THEN [R |-> R, sink |-> NULL, error |-> TRUE]
            ELSE [R |-> [list    |-> Append(R.list, [name |-> name, refcount |-> 1,
                                                      syslog |-> syslog, file |-> file]),
                         streams |-> IF file # NULL /\ name # SINK_STDERR
                                                    /\ name # SINK_STDOUT
                                     THEN R.streams \cup {file}
                                     ELSE R.streams,
                         syslog  |-> IF syslog THEN TRUE ELSE R.syslog],
                  sink |-> name, error |-> FALSE]

\* -------------------------------------------------------- source registry

ZeroHistogram == [i \in 1..N_LEVEL_INDICES |-> 0]

\* A lookup that compares the names letter by letter.
lookup_log_source_lh_exact(list, dflt, module) ==
    IF module = SOURCE_DEFAULT THEN dflt
    ELSE IF \E i \in 1..Len(list) : module = list[i].module
         THEN CHOOSE i \in 1..Len(list) :
                 /\ module = list[i].module
                 /\ \A j \in 1..(i - 1) : module # list[j].module
         ELSE 0

\* lookup_log_source_lh: the position of the source, 0 if none.
lookup_log_source_lh(list, dflt, module) ==
    IF strcasecmp_eq(module, SOURCE_DEFAULT) THEN dflt
    ELSE IF \E i \in 1..Len(list) : strcasecmp_eq(module, list[i].module)
         THEN CHOOSE i \in 1..Len(list) :
                 /\ strcasecmp_eq(module, list[i].module)
                 /\ \A j \in 1..(i - 1) : ~strcasecmp_eq(module, list[j].module)
         ELSE 0

\* A reset that keeps the counters.
qd_log_source_defaults_keep_histogram(log_source) ==
    [log_source EXCEPT !.mask = -1, !.timestamp = -1, !.source = -1, !.sink = NULL]

\* qd_log_source_defaults
qd_log_source_defaults(log_source) ==
    [log_source EXCEPT !.mask = -1, !.timestamp = -1, !.source = -1,
                       !.sink = NULL, !.severity_histogram = ZeroHistogram]

\* qd_log_source_lh: [list, src], the list after the call and the source.
qd_log_source_lh(list, dflt, module) ==
    LET found == lookup_log_source_lh(list, dflt, module) IN
    IF found # 0 THEN [list |-> list, src |-> found]
    ELSE [list |-> Append(list, qd_log_source_defaults(
                       [module |-> module, mask |-> 0, timestamp |-> 0, source |-> 0,
                        sink |-> NULL, severity_histogram |-> ZeroHistogram])),
          src  |-> Len(list) + 1]

\* default_bool
default_bool(value, default_value) ==
    IF value = -1 THEN default_value # 0 ELSE value # 0

\* A filter that ignores the DEFAULT source's mask.
qd_log_enabled_own_mask(list, dflt, source, level) ==
    IF source = 0 THEN FALSE
    ELSE BitAnd(level, list[source].mask) # 0

\* qd_log_enabled
qd_log_enabled(list, dflt, source, level) ==
    IF source = 0 THEN FALSE
    ELSE LET mask == IF list[source].mask = -1 THEN list[dflt].mask
                                               ELSE list[source].mask
         IN BitAnd(level, mask) # 0

\* ------------------------------------------------------------ emit pipeline

NoIO == [written |-> FALSE, sink |-> NULL, file |-> NULL, syslog |-> FALSE,
         timestamp |-> FALSE, callsite |-> FALSE, level |-> <<>>,
         module |-> <<>>, text |-> 0]

\* A write_log that falls back to the values DEFAULT had at initialization.
write_log_initial_defaults(list, dflt, sinks, log_source, entry) ==
    LET sink  == IF list[log_source].sink # NULL THEN list[log_source].sink
                                                 ELSE SINK_STDERR
        found == level_for_bit(entry.level)
        level == IF found = N_LEVELS THEN INFO ELSE found
        i     == find_log_sink_lh(sinks, sink)
    IN IF sink = NULL \/ i = 0 THEN NoIO
       ELSE [written   |-> TRUE,
             sink      |-> sink,
             file      |-> sinks[i].file,
             syslog    |-> sinks[i].syslog,
             timestamp |-> default_bool(list[log_source].timestamp, 1),
             callsite  |-> default_bool(list[log_source].source, 0)
                           /\ entry.file # NULL,
             level     |-> levels[level + 1].name,
             module    |-> entry.module,
             text      |-> entry.text]

\* write_log, line 287: the sink of the source, else the DEFAULT source's.
write_log_sink(list, dflt, log_source) ==
    IF list[log_source].sink # NULL THEN list[log_source].sink ELSE list[dflt].sink

\* write_log, lines 290-330: the line rendered with the given flags and handed
\* to the sink, NoIO when there is no sink.
write_log_line(sinks, sink, timestamp, callsite, entry) ==
    LET found == level_for_bit(entry.level)
        level == IF found = N_LEVELS THEN INFO ELSE found
        i     == find_log_sink_lh(sinks, sink)
    IN IF sink = NULL \/ i = 0 THEN NoIO
       ELSE [written   |-> TRUE,
             sink      |-> sink,
             file      |-> sinks[i].file,
             syslog    |-> sinks[i].syslog,
             timestamp |-> timestamp,
             callsite  |-> callsite /\ entry.file # NULL,
             level     |-> levels[level + 1].name,
             module    |-> entry.module,
             text      |-> entry.text]

\* write_log
write_log(list, dflt, sinks, log_source, entry) ==
    write_log_line(sinks, write_log_sink(list, dflt, log_source),
                   default_bool(list[log_source].timestamp, list[dflt].timestamp),
                   default_bool(list[log_source].source, list[dflt].source),
                   entry)

\* An eviction test that lets the buffer grow one entry beyond the capacity.
over_capacity_late(list) == Len(list) > LIST_MAX + 1

\* DEQ_SIZE(entries) > LIST_MAX
over_capacity(list) == Len(list) > LIST_MAX

\* A buffer that evicts one entry too early.
history_append_early(list, entry) ==
    LET appended == Append(list, entry) IN
    IF Len(appended) >= LIST_MAX THEN Tail(appended) ELSE appended

\* The bounded buffer of qd_vlog_impl: insert at the tail, drop the head when
\* the size exceeds LIST_MAX.
history_append(list, entry) ==
    LET appended == Append(list, entry) IN
    IF over_capacity(appended) THEN Tail(appended) ELSE appended

\* A histogram that counts only the events that pass the filter.
histogram_count_enabled(list, source, level) ==
    LET level_index == level_index_for_bit(level) IN
    IF level_index < 0 \/ ~qd_log_enabled(list, default_log_source, source, level)
    THEN list
    ELSE [list EXCEPT ![source].severity_histogram[level_index + 1] = @ + 1]

\* The histogram step of qd_vlog_impl.
histogram_count(list, source, level) ==
    LET level_index == level_index_for_bit(level) IN
    IF level_index < 0 THEN list
    ELSE [list EXCEPT ![source].severity_histogram[level_index + 1] = @ + 1]

\* ------------------------------------------------------------- the last call

NoEntity == [module |-> <<>>, has_output |-> FALSE, output |-> NULL,
             has_enable |-> FALSE, enable |-> <<>>,
             has_timestamp |-> FALSE, timestamp |-> 0,
             has_source |-> FALSE, source |-> 0]

Call(op) == [op |-> op, module |-> <<>>, src |-> 0, level |-> 0, file |-> NULL,
             entity |-> NoEntity, limit |-> 0, code |-> QD_ERROR_NONE,
             result |-> <<>>, io |-> NoIO, released |-> NULL]

\* An update request of the management layer: qd_entity_has(entity, f) is
\* has_f, qd_entity_get_string / qd_entity_get_bool give the field.  The
\* arguments NULL, <<"absent">> and -1 stand for a field the request lacks.
Entity(m, o, e, t, s) ==
    [module |-> m,
     has_output |-> o # NULL, output |-> o,
     has_enable |-> e # <<"absent">>, enable |-> IF e = <<"absent">> THEN <<>> ELSE e,
     has_timestamp |-> t # -1, timestamp |-> IF t = -1 THEN 0 ELSE t,
     has_source |-> s # -1, source |-> IF s = -1 THEN 0 ELSE s]

\* ---------------------------------------------------------- qd_log_entity
\* The body of the do { } while(0): st = [list, R, src, error, released] is
\* threaded through the four fields; QD_ERROR_BREAK leaves the block once
\* error is set.  released is the src->sink handed to log_sink_free_lh.

\* An output step that releases the old sink before it resolves the new one.
entity_output_release_first(st, entity) ==
    IF ~entity.has_output THEN st
    ELSE LET R0  == log_sink_free_lh(st.R, st.list[st.src].sink)
             got == log_sink_lh(R0, entity.output)
         IN IF got.error THEN [st EXCEPT !.R = R0, !.error = TRUE]
            ELSE LET i == find_log_sink_lh(got.R.list, got.sink)
                 IN [st EXCEPT !.R = got.R,
                               !.released = st.list[st.src].sink,
                               !.list[st.src].sink = got.sink,
                               !.list[st.src].timestamp =
                                   IF i # 0 /\ got.R.list[i].syslog THEN 0 ELSE @]

\* An output step that leaves the timestamp flag alone.
entity_output_keep_timestamp(st, entity) ==
    IF ~entity.has_output THEN st
    ELSE LET got == log_sink_lh(st.R, entity.output) IN
         IF got.error THEN [st EXCEPT !.error = TRUE]
         ELSE [st EXCEPT !.R = log_sink_free_lh(got.R, st.list[st.src].sink),
                         !.released = st.list[st.src].sink,
                         !.list[st.src].sink = got.sink]

entity_output(st, entity) ==
    IF ~entity.has_output THEN st
    ELSE LET got == log_sink_lh(st.R, entity.output) IN
         IF got.error THEN [st EXCEPT !.error = TRUE]
         ELSE LET R1 == log_sink_free_lh(got.R, st.list[st.src].sink)
                  i  == find_log_sink_lh(R1.list, got.sink)
              IN [st EXCEPT !.R = R1,
                            !.released = st.list[st.src].sink,
                            !.list[st.src].sink = got.sink,
                            !.list[st.src].timestamp =
                                IF i # 0 /\ R1.list[i].syslog THEN 0 ELSE @]

entity_enable(st, entity) ==
    IF ~entity.has_enable THEN st
    ELSE LET m == enable_mask(entity.enable) IN
         [st EXCEPT !.list[st.src].mask = m.mask, !.error = m.error]

entity_timestamp(st, entity) ==
    IF ~entity.has_timestamp THEN st
    ELSE [st EXCEPT !.list[st.src].timestamp = entity.timestamp]

entity_source(st, entity) ==
    IF ~entity.has_source THEN st
    ELSE [st EXCEPT !.list[st.src].source = entity.source]

\* A block without QD_ERROR_BREAK: every field is applied.
entity_fields_no_break(st, entity) ==
    entity_source(entity_timestamp(entity_enable(entity_output(st, entity), entity),
                                   entity), entity)

\* The four fields in the order of the code, with QD_ERROR_BREAK after each.
entity_fields(st, entity) ==
    LET s1 == entity_output(st, entity)
        s2 == IF s1.error THEN s1 ELSE entity_enable(s1, entity)
        s3 == IF s2.error THEN s2 ELSE entity_timestamp(s2, entity)
        s4 == IF s3.error THEN s3 ELSE entity_source(s3, entity)
    IN s4

\* The block of qd_log_entity applied to the current state.
entity_result(entity) ==
    LET got == qd_log_source_lh(source_list, default_log_source, entity.module) IN
    entity_fields([list  |-> got.list,
                   R     |-> [list |-> sink_list, streams |-> streams,
                              syslog |-> syslog_open],
                   src   |-> got.src,
                   error |-> FALSE,
                   released |-> NULL], entity)

\* --------------------------------------------- what an emit call resolves
Threads == 1..NThreads

\* The effective values of a source in one state of the registry: what
\* qd_log_enabled and write_log compute from the source and DEFAULT.
Snapshot(list, dflt, source) ==
    [mask      |-> IF list[source].mask = -1 THEN list[dflt].mask
                                             ELSE list[source].mask,
     sink      |-> write_log_sink(list, dflt, source),
     timestamp |-> default_bool(list[source].timestamp, list[dflt].timestamp),
     callsite  |-> default_bool(list[source].source, list[dflt].source)]

\* History of the registry for the threads inside an emit call: a management
\* call that leaves the registry as `list` adds that state's effective
\* values to the states each running call has lived through.
Observe(list) ==
    [t \in Threads |->
        IF threads[t].pc = "idle" THEN threads[t]
        ELSE [threads[t] EXCEPT
                 !.seen = @ \cup {Snapshot(list, default_log_source, threads[t].source)}]]

\* ----------------------------------------------------------------- actions
\* Each action is one whole call.  n_cfg only counts the management calls of a
\* run; the specifications below bound it.

\* qd_log_source(module)
qd_log_source(module) ==
    /\ \E got \in {qd_log_source_lh(source_list, default_log_source, module)} :
          /\ source_list' = got.list
          /\ last' = [Call("source") EXCEPT !.module = module, !.src = got.src]
    /\ n_cfg' = n_cfg + 1
    /\ UNCHANGED <<query, log_lock, threads, default_log_source, logging_log_source, sink_list, streams,
                   syslog_open, entries, emitted, n_emit>>

\* qd_log_source_reset(module)
qd_log_source_reset(module) ==
    /\ \E got \in {qd_log_source_lh(source_list, default_log_source, module)} :
          /\ source_list' = [got.list EXCEPT ![got.src] = qd_log_source_defaults(@)]
          /\ threads' = Observe([got.list EXCEPT ![got.src] = qd_log_source_defaults(@)])
          /\ last' = [Call("reset") EXCEPT !.module = module, !.src = got.src]
    /\ n_cfg' = n_cfg + 1
    /\ UNCHANGED <<query, log_lock, default_log_source, logging_log_source, sink_list, streams,
                   syslog_open, entries, emitted, n_emit>>

\* qd_log_entity(entity)
qd_log_entity(entity) ==
    /\ \E st \in {entity_result(entity)} :
          /\ source_list' = st.list
          /\ threads' = Observe(st.list)
          /\ sink_list' = st.R.list
          /\ streams' = st.R.streams
          /\ syslog_open' = st.R.syslog
          /\ last' = [Call("entity") EXCEPT
                         !.module = entity.module, !.src = st.src, !.entity = entity,
                         !.released = st.released,
                         !.code = IF st.error THEN QD_ERROR_CONFIG ELSE QD_ERROR_NONE]
    /\ n_cfg' = n_cfg + 1
    /\ UNCHANGED <<query, log_lock, default_log_source, logging_log_source, entries, emitted, n_emit>>

\* qd_vlog_impl(source, level, file, line, fmt, ap); the formatted text is
\* the number of the call.
qd_vlog_impl(source, level, file) ==
    /\ n_emit' = n_emit + 1
    /\ \E counted \in {histogram_count(source_list, source, level)} :
       \E entry \in {[module |-> source_list[source].module, level |-> level,
                      file |-> file, line |-> IF file = NULL THEN 0 ELSE 1,
                      text |-> n_emit + 1]} :
       \E call \in {[Call("emit") EXCEPT !.module = source_list[source].module,
                                         !.src = source, !.level = level,
                                         !.file = file]} :
          /\ source_list' = counted
          /\ IF ~qd_log_enabled(counted, default_log_source, source, level)
             THEN /\ entries' = entries
                  /\ emitted' = emitted
                  /\ last' = call
             ELSE /\ entries' = history_append(entries, entry)
                  /\ emitted' = Append(emitted, entry)
                  /\ last' = [call EXCEPT !.io = write_log(counted, default_log_source,
                                                           sink_list, source, entry)]
    /\ UNCHANGED <<query, log_lock, threads, default_log_source, logging_log_source, sink_list, streams,
                   syslog_open, n_cfg>>

\* A query loop that appends each visited entry at the back of the list.
RECURSIVE recent_loop_newest_first(_, _, _, _)
recent_loop_newest_first(hist, entry, limit, list) ==
    IF entry = 0 \/ limit = 0 THEN list
    ELSE recent_loop_newest_first(hist, entry - 1,
                     IF limit > 0 THEN limit - 1 ELSE limit,
                     list \o <<[module |-> hist[entry].module,
                                level  |-> level_name(hist[entry].level),
                                text   |-> hist[entry].text,
                                file   |-> hist[entry].file,
                                line   |-> hist[entry].line]>>)

\* A query loop in which a negative limit stops the walk like limit 0.
RECURSIVE recent_loop_stop_negative(_, _, _, _)
recent_loop_stop_negative(hist, entry, limit, list) ==
    IF entry = 0 \/ limit <= 0 THEN list
    ELSE recent_loop_stop_negative(hist, entry - 1, limit - 1,
                     <<[module |-> hist[entry].module,
                        level  |-> level_name(hist[entry].level),
                        text   |-> hist[entry].text,
                        file   |-> hist[entry].file,
                        line   |-> hist[entry].line]>> \o list)

\* The loop of qd_log_recent_py from `entry` towards the head: the list built
\* so far is `list`, and each visited entry is inserted at its front.
RECURSIVE recent_loop(_, _, _, _)
recent_loop(hist, entry, limit, list) ==
    IF entry = 0 \/ limit = 0 THEN list
    ELSE recent_loop(hist, entry - 1,
                     IF limit > 0 THEN limit - 1 ELSE limit,
                     <<[module |-> hist[entry].module,
                        level  |-> level_name(hist[entry].level),
                        text   |-> hist[entry].text,
                        file   |-> hist[entry].file,
                        line   |-> hist[entry].line]>> \o list)

\* qd_log_recent_py(limit)
qd_log_recent_py(limit) ==
    /\ last' = [Call("recent") EXCEPT
                   !.limit = limit,
                   !.result = recent_loop(entries, Len(entries), limit, <<>>)]
    /\ UNCHANGED <<query, log_lock, threads, source_list, default_log_source, logging_log_source, sink_list,
                   streams, syslog_open, entries, emitted, n_emit, n_cfg>>

\* ------------------------------------------------- qd_vlog_impl by threads
\* The same call as a thread runs it, one step per access to shared memory.
\* No step but the last four holds a lock: qd_vlog_impl takes log_lock only
\* around the buffer and never takes log_source_lock.

NoEntry == [module |-> <<>>, level |-> 0, file |-> NULL, line |-> 0, text |-> 0]

\* after: the calls (by number) that had returned when this call began.
\* mask, sink, timestamp, callsite: the effective values as the call read them.
\* seen: the effective values in each registry state since the call began.
Idle == [pc |-> "idle", source |-> 0, level |-> 0, count |-> 0, sink |-> NULL,
         entry |-> NoEntry, io |-> NoIO, after |-> {},
         mask |-> 0, timestamp |-> FALSE, callsite |-> FALSE, seen |-> {}]

\* The calls that have returned: begun, and no thread is inside them.
Returned == {a \in 1..n_emit : \A u \in Threads : threads[u].entry.text # a}

\* An insertion at the head of the list.
DEQ_INSERT_HEAD(list, entry) == <<entry>> \o list

\* DEQ_INSERT_TAIL
DEQ_INSERT_TAIL(list, entry) == Append(list, entry)

conc_frame == <<default_log_source, logging_log_source, sink_list, streams,
                syslog_open, n_cfg, query>>

\* The call begins: the arguments.
emit_call(t, source, level, file) ==
    /\ threads[t].pc = "idle"
    /\ n_emit' = n_emit + 1
    /\ threads' = [threads EXCEPT ![t] = [Idle EXCEPT
            !.pc = "count", !.source = source, !.level = level,
            !.after = Returned,
            !.seen = {Snapshot(source_list, default_log_source, source)},
            !.entry = [NoEntry EXCEPT !.level = level, !.file = file,
                                      !.line = IF file = NULL THEN 0 ELSE 1,
                                      !.text = n_emit + 1]]]
    /\ UNCHANGED <<source_list, entries, emitted, last, log_lock>>
    /\ UNCHANGED conc_frame

\* Lines 398-402, the read of severity_histogram[level_index]++.
emit_count_read(t) ==
    /\ threads[t].pc = "count"
    /\ \E level_index \in {level_index_for_bit(threads[t].level)} :
          threads' = [threads EXCEPT ![t] =
              IF level_index < 0 THEN [@ EXCEPT !.pc = "enabled"]
              ELSE [@ EXCEPT !.pc = "count_write",
                             !.count = source_list[threads[t].source]
                                          .severity_histogram[level_index + 1]]]
    /\ UNCHANGED <<source_list, entries, emitted, last, log_lock, n_emit>>
    /\ UNCHANGED conc_frame

\* Line 402, the write of severity_histogram[level_index]++.
emit_count_write(t) ==
    /\ threads[t].pc = "count_write"
    /\ source_list' = [source_list EXCEPT
          ![threads[t].source].severity_histogram[level_index_for_bit(threads[t].level) + 1]
              = threads[t].count + 1]
    /\ threads' = [threads EXCEPT ![t].pc = "enabled"]
    /\ UNCHANGED <<entries, emitted, last, log_lock, n_emit>>
    /\ UNCHANGED conc_frame

\* Line 404: return when the level is filtered out; lines 406-413 build the entry.
emit_enabled(t) ==
    /\ threads[t].pc = "enabled"
    /\ IF qd_log_enabled(source_list, default_log_source, threads[t].source,
                         threads[t].level)
       THEN /\ threads' = [threads EXCEPT
                    ![t].pc = "write_sink",
                    ![t].mask = Snapshot(source_list, default_log_source,
                                         threads[t].source).mask,
                    ![t].entry.module = source_list[threads[t].source].module]
            /\ last' = last
       ELSE /\ threads' = [threads EXCEPT ![t] = Idle]
            /\ last' = [Call("emit") EXCEPT
                           !.module = source_list[threads[t].source].module,
                           !.src = threads[t].source, !.level = threads[t].level,
                           !.file = threads[t].entry.file]
    /\ UNCHANGED <<source_list, entries, emitted, log_lock, n_emit>>
    /\ UNCHANGED conc_frame

\* write_log, line 287: the sink pointer is read.
emit_write_sink(t) ==
    /\ threads[t].pc = "write_sink"
    /\ threads' = [threads EXCEPT
          ![t].pc = "write_line",
          ![t].sink = write_log_sink(source_list, default_log_source, threads[t].source)]
    /\ UNCHANGED <<source_list, entries, emitted, last, log_lock, n_emit>>
    /\ UNCHANGED conc_frame

\* The thread's sink pointer designates a sink that was freed since the
\* thread read the pointer.
SinkFreed(t) ==
    threads[t].sink # NULL /\ find_log_sink_lh(sink_list, threads[t].sink) = 0

\* What sink->file and sink->syslog of a freed sink can make of the write:
\* nothing written, or the line sent to whatever the freed memory designates.
UseAfterFree(sink, entry) ==
    { NoIO,
      [NoIO EXCEPT !.written = TRUE, !.sink = sink, !.file = "freed",
                   !.module = entry.module, !.text = entry.text] }

\* write_log, lines 290-330: the flags are read, the line is written.
emit_write_line(t) ==
    /\ threads[t].pc = "write_line"
    /\ \E io \in (IF SinkFreed(t)
                  THEN UseAfterFree(threads[t].sink, threads[t].entry)
                  ELSE {write_log_line(sink_list, threads[t].sink,
                           default_bool(source_list[threads[t].source].timestamp,
                                        source_list[default_log_source].timestamp),
                           default_bool(source_list[threads[t].source].source,
                                        source_list[default_log_source].source),
                           threads[t].entry)}) :
          threads' = [threads EXCEPT
              ![t].pc = "lock", ![t].io = io,
              ![t].timestamp = threads[t].sink # NULL /\
                  Snapshot(source_list, default_log_source, threads[t].source).timestamp,
              ![t].callsite = threads[t].sink # NULL /\
                  Snapshot(source_list, default_log_source, threads[t].source).callsite]
    /\ UNCHANGED <<source_list, entries, emitted, last, log_lock, n_emit>>
    /\ UNCHANGED conc_frame

\* Line 417: sys_mutex_lock(log_lock).
emit_lock(t) ==
    /\ threads[t].pc = "lock"
    /\ log_lock = 0
    /\ log_lock' = t
    /\ threads' = [threads EXCEPT ![t].pc = "insert"]
    /\ UNCHANGED <<source_list, entries, emitted, last, n_emit>>
    /\ UNCHANGED conc_frame

\* Line 418: DEQ_INSERT_TAIL(entries, entry).
emit_insert(t) ==
    /\ threads[t].pc = "insert"
    /\ entries' = DEQ_INSERT_TAIL(entries, threads[t].entry)
    /\ emitted' = Append(emitted, threads[t].entry)
    /\ threads' = [threads EXCEPT ![t].pc = "evict"]
    /\ UNCHANGED <<source_list, last, log_lock, n_emit>>
    /\ UNCHANGED conc_frame

\* Lines 419-420: the head is freed when the buffer is over its capacity.
emit_evict(t) ==
    /\ threads[t].pc = "evict"
    /\ entries' = IF over_capacity(entries) THEN Tail(entries) ELSE entries
    /\ threads' = [threads EXCEPT ![t].pc = "unlock"]
    /\ UNCHANGED <<source_list, emitted, last, log_lock, n_emit>>
    /\ UNCHANGED conc_frame

\* Line 421: sys_mutex_unlock(log_lock); the call returns.
emit_unlock(t) ==
    /\ threads[t].pc = "unlock"
    /\ log_lock' = 0
    /\ last' = [Call("emit") EXCEPT
                   !.module = threads[t].entry.module,
                   !.src = threads[t].source, !.level = threads[t].level,
                   !.file = threads[t].entry.file, !.io = threads[t].io]
    /\ threads' = [threads EXCEPT ![t] = Idle]
    /\ UNCHANGED <<source_list, entries, emitted, n_emit>>
    /\ UNCHANGED conc_frame

\* ------------------------------------------------------------ qd_log_finalize

\* The first loop of qd_log_finalize (qd_log_source_free_lh on every head):
\* the sink registry after the sink of every source of `list` was released,
\* and the number of releases.
RECURSIVE finalize_sources(_, _, _)
finalize_sources(list, R, releases) ==
    IF list = <<>> THEN [R |-> R, releases |-> releases]
    ELSE finalize_sources(Tail(list), log_sink_free_lh(R, Head(list).sink),
                          IF Head(list).sink = NULL THEN releases ELSE releases + 1)

\* A last loop that never runs.
finalize_sinks_none(R, turns, releases) == [R |-> R, releases |-> releases]

\* The last loop of qd_log_finalize: log_sink_free_lh on the head of
\* sink_list while there is one.  `turns` is the number of turns left of as
\* many as the counts of the registry allow (each turn lowers one count).
RECURSIVE finalize_sinks(_, _, _)
finalize_sinks(R, turns, releases) ==
    IF R.list = <<>> \/ turns = 0 THEN [R |-> R, releases |-> releases]
    ELSE finalize_sinks(log_sink_free_lh(R, R.list[1].name), turns - 1, releases + 1)

\* The sum of the reference counts of a sink list.
RECURSIVE TotalRefcount(_)
TotalRefcount(list) ==
    IF list = <<>> THEN 0 ELSE Head(list).refcount + TotalRefcount(Tail(list))

\* qd_log_finalize(); result is <<releases of the first loop, of the last>>.
qd_log_finalize ==
    /\ \E s1 \in {finalize_sources(source_list,
                        [list |-> sink_list, streams |-> streams, syslog |-> syslog_open],
                        0)} :
       \E s2 \in {finalize_sinks(s1.R, TotalRefcount(s1.R.list), 0)} :
          /\ source_list' = <<>>
          /\ entries' = <<>>
          /\ sink_list' = s2.R.list
          /\ streams' = s2.R.streams
          /\ syslog_open' = s2.R.syslog
          /\ last' = [Call("finalize") EXCEPT !.result = <<s1.releases, s2.releases>>]
    /\ UNCHANGED <<query, log_lock, threads, default_log_source, logging_log_source,
                   emitted, n_emit, n_cfg>>

\* --------------------------------------------- qd_log_recent_py by a thread
\* The query as the management thread runs it while other threads emit, one
\* step per entry it visits.  It takes no lock.  An entry pointer is the text
\* (the call number) of the entry, 0 for a null pointer.

\* entry, limit, list: the locals of qd_log_recent_py.
QueryIdle == [pc |-> "idle", entry |-> 0, limit |-> 0, list |-> <<>>]

\* The position in the history of the entry a pointer designates, 0 when the
\* entry has been removed and freed.
EntryAt(entry) ==
    IF \E i \in 1..Len(entries) : entries[i].text = entry
    THEN CHOOSE i \in 1..Len(entries) : entries[i].text = entry
    ELSE 0

\* The row a freed entry gives.
FreedRow == [module |-> <<>>, level |-> <<>>, text |-> 0, file |-> "freed", line |-> 0]

\* Line 440: entry = DEQ_TAIL(entries).
recent_begin(limit) ==
    /\ query.pc = "idle"
    /\ query' = [pc |-> "walk",
                 entry |-> IF entries = <<>> THEN 0 ELSE entries[Len(entries)].text,
                 limit |-> limit, list |-> <<>>]
    /\ UNCHANGED <<source_list, default_log_source, logging_log_source, sink_list,
                   streams, syslog_open, entries, emitted, last, n_emit, n_cfg,
                   log_lock, threads>>

\* Lines 441-461, one turn of the loop: the entry is read and put in front
\* of the list, the pointer moves to DEQ_PREV(entry).  Reading a freed entry
\* gives a row of whatever the memory holds, and an unknown previous pointer:
\* null, or the tail of the history.
recent_visit ==
    /\ query.pc = "walk"
    /\ query.entry # 0 /\ query.limit # 0
    /\ \E i \in {EntryAt(query.entry)} :
          IF i = 0
          THEN \E prev \in {0} \cup (IF entries = <<>> THEN {}
                                     ELSE {entries[Len(entries)].text}) :
                  query' = [query EXCEPT
                      !.list = <<FreedRow>> \o @,
                      !.limit = IF @ > 0 THEN @ - 1 ELSE @,
                      !.entry = prev]
          ELSE query' = [query EXCEPT
                  !.list = <<[module |-> entries[i].module,
                              level  |-> level_name(entries[i].level),
                              text   |-> entries[i].text,
                              file   |-> entries[i].file,
                              line   |-> entries[i].line]>> \o @,
                  !.limit = IF @ > 0 THEN @ - 1 ELSE @,
                  !.entry = IF i = 1 THEN 0 ELSE entries[i - 1].text]
    /\ UNCHANGED <<source_list, default_log_source, logging_log_source, sink_list,
                   streams, syslog_open, entries, emitted, last, n_emit, n_cfg,
                   log_lock, threads>>

\* Line 462: return list.
recent_return ==
    /\ query.pc = "walk"
    /\ query.entry = 0 \/ query.limit = 0
    /\ last' = [Call("recent") EXCEPT !.result = query.list]
    /\ query' = QueryIdle
    /\ UNCHANGED <<source_list, default_log_source, logging_log_source, sink_list,
                   streams, syslog_open, entries, emitted, n_emit, n_cfg,
                   log_lock, threads>>

\* ------------------------------------------------------------------ inputs

MODULE_HTTP == <<"H","T","T","P">>

Modules == {SOURCE_DEFAULT, <<"D","e","f","a","u","l","t">>, SOURCE_LOGGING,
            MODULE_HTTP, <<"h","t","t","p">>}

EmitLevels == {QD_LOG_TRACE, QD_LOG_DEBUG, QD_LOG_INFO, QD_LOG_NOTICE,
               QD_LOG_WARNING, QD_LOG_ERROR, QD_LOG_CRITICAL}

EmitFiles == {NULL, "agent.c"}

BadFile == "/nonexistent/qdrouterd.log"

Outputs == {SINK_STDERR, SINK_STDOUT, SINK_SYSLOG, "/var/log/qdrouterd.log", BadFile}

EnableTrace == <<"t","r","a","c","e">>
EnableErrorPlus == <<"E","R","R","O","R","+">>
EnableBogus == <<"i","n","f","o",","," ","b","o","g","u","s">>

Enables == {EnableTrace, EnableErrorPlus, EnableBogus}

Entities ==
    { Entity(m, o, e, t, s) :
        m \in Modules, o \in Outputs \cup {NULL}, e \in Enables \cup {<<"absent">>},
        t \in {-1, 0, 1}, s \in {-1, 0, 1} }

Limits == (-1)..(LIST_MAX + 1)

\* ------------------------------------------------------------ specification

\* The state qd_log_initialize leaves: the DEFAULT source with its concrete
\* values and the stderr sink, and the LOGGING source.
Init ==
    /\ source_list = <<
          [module |-> SOURCE_DEFAULT, mask |-> levels[INFO + 1].mask, timestamp |-> 1,
           source |-> 0, sink |-> SINK_STDERR, severity_histogram |-> ZeroHistogram],
          [module |-> SOURCE_LOGGING, mask |-> -1, timestamp |-> -1,
           source |-> -1, sink |-> NULL, severity_histogram |-> ZeroHistogram] >>
    /\ default_log_source = 1
    /\ logging_log_source = 2
    /\ sink_list = <<[name |-> SINK_STDERR, refcount |-> 1, syslog |-> FALSE,
                      file |-> "stderr"]>>
    /\ streams = {"stderr", "stdout"}
    /\ syslog_open = FALSE
    /\ entries = <<>>
    /\ emitted = <<>>
    /\ last = Call("initialize")
    /\ n_emit = 0
    /\ n_cfg = 0
    /\ log_lock = 0
    /\ threads = [t \in Threads |-> Idle]
    /\ query = QueryIdle

\* Every call with every input of the sets above.
Next ==
    \/ n_cfg < MaxCfg /\ \E module \in Modules : qd_log_source(module)
    \/ n_cfg < MaxCfg /\ \E module \in Modules : qd_log_source_reset(module)
    \/ n_cfg < MaxCfg /\ \E entity \in Entities : qd_log_entity(entity)
    \/ /\ n_emit < MaxEmit
       /\ \E source \in 1..Len(source_list), level \in EmitLevels, file \in EmitFiles :
             qd_vlog_impl(source, level, file)
    \/ \E limit \in Limits : qd_log_recent_py(limit)

Spec == Init /\ [][Next]_vars

\* The emit pipeline alone, under the configuration of qd_log_initialize:
\* every level, valid or not, on every source.
NextEmit ==
    /\ n_emit < MaxEmit
    /\ \E source \in 1..Len(source_list), level \in EmitLevels \cup {QD_LOG_NONE} :
          qd_vlog_impl(source, level, NULL)

SpecEmit == Init /\ [][NextEmit]_vars

\* The history: emits that pass (INFO, ERROR) and that do not (TRACE), and the
\* recent-entries query with every limit around the capacity.
HistoryLevels == {QD_LOG_TRACE, QD_LOG_INFO, QD_LOG_ERROR}

NextHistory ==
    \/ /\ n_emit < MaxEmit
       /\ \E source \in 1..Len(source_list), level \in HistoryLevels :
             qd_vlog_impl(source, level, "agent.c")
    \/ \E limit \in Limits : qd_log_recent_py(limit)

SpecHistory == Init /\ [][NextHistory]_vars

\* The filter and the fallback to DEFAULT: single-field updates of DEFAULT and
\* of LOGGING, in any order with emits on both sources.
MODULE_default == <<"d","e","f","a","u","l","t">>

FilterEntities ==
    { Entity(MODULE_default, NULL, EnableTrace, -1, -1),
      Entity(MODULE_default, NULL, <<"absent">>, 0, -1),
      Entity(MODULE_default, NULL, <<"absent">>, -1, 1),
      Entity(MODULE_default, SINK_STDOUT, <<"absent">>, -1, -1),
      Entity(SOURCE_LOGGING, NULL, EnableErrorPlus, -1, -1),
      Entity(SOURCE_LOGGING, NULL, <<"absent">>, 1, -1),
      Entity(SOURCE_LOGGING, NULL, <<"absent">>, -1, 0),
      Entity(SOURCE_LOGGING, SINK_SYSLOG, <<"absent">>, -1, -1) }

NextFilter ==
    \/ n_cfg < MaxCfg /\ \E entity \in FilterEntities : qd_log_entity(entity)
    \/ /\ n_emit < MaxEmitCfg
       /\ \E source \in 1..Len(source_list), level \in HistoryLevels, file \in EmitFiles :
             qd_vlog_impl(source, level, file)

SpecFilter == Init /\ [][NextFilter]_vars

\* The management operations: updates with every combination of fields,
\* valid and failing, on DEFAULT and on a module created by the update.
ConfigEntities ==
    { Entity(m, o, e, t, s) :
        m \in {MODULE_default, MODULE_HTTP},
        o \in {NULL, SINK_STDOUT, SINK_SYSLOG, BadFile},
        e \in {<<"absent">>, EnableTrace, EnableBogus},
        t \in {-1, 1}, s \in {-1, 1} }

NextConfig ==
    \/ n_cfg < MaxCfg /\ \E entity \in ConfigEntities : qd_log_entity(entity)
    \/ /\ n_cfg < MaxCfg
       /\ \E module \in {MODULE_default, MODULE_HTTP} : qd_log_source_reset(module)
    \/ n_cfg < MaxCfg /\ qd_log_source(MODULE_HTTP)

SpecConfig == Init /\ [][NextConfig]_vars

\* The source registry: sources are created, configured, written to and
\* reset, under names that differ in letter-case only.
MODULE_http == <<"h","t","t","p">>

SourceModules == {MODULE_default, SOURCE_LOGGING, MODULE_HTTP, MODULE_http}

SourceEntities ==
    { Entity(SOURCE_LOGGING, SINK_STDOUT, EnableTrace, 1, 1),
      Entity(MODULE_http, SINK_SYSLOG, <<"absent">>, -1, -1) }

NextSources ==
    \/ n_cfg < MaxCfg /\ \E module \in SourceModules : qd_log_source(module)
    \/ n_cfg < MaxCfg /\ \E module \in SourceModules : qd_log_source_reset(module)
    \/ n_cfg < MaxCfg /\ \E entity \in SourceEntities : qd_log_entity(entity)
    \/ /\ n_emit < MaxEmitCfg
       /\ \E source \in 1..Len(source_list), level \in HistoryLevels :
             qd_vlog_impl(source, level, NULL)

SpecSources == Init /\ [][NextSources]_vars

\* The sink registry: the output of three sources is pointed to every kind
\* of sink, shared or not, and the sources are reset.
LogFile == "/var/log/qdrouterd.log"

SinkModules == {MODULE_default, SOURCE_LOGGING, MODULE_HTTP}

SinkEntities ==
    { Entity(m, o, <<"absent">>, -1, -1) :
        m \in SinkModules,
        o \in {SINK_STDERR, SINK_STDOUT, SINK_SYSLOG, LogFile, BadFile} }

NextSinks ==
    \/ n_cfg < MaxCfg /\ \E entity \in SinkEntities : qd_log_entity(entity)
    \/ n_cfg < MaxCfg /\ \E module \in SinkModules : qd_log_source_reset(module)

SpecSinks == Init /\ [][NextSinks]_vars

\* The enable-spec parser: specifications of one or two tokens, each a level
\* name in some letter-case with or without '+', joined by each separator.
\* bucket is the position of the named level among TRACE..CRITICAL.
ParseNames ==
    { [name |-> <<"i","n","f","o">>, bucket |-> 3],
      [name |-> <<"I","N","F","O">>, bucket |-> 3],
      [name |-> <<"E","r","r","o","r">>, bucket |-> 6],
      [name |-> <<"d","e","b","u","g">>, bucket |-> 2],
      [name |-> <<"N","o","t","i","c","e">>, bucket |-> 4] }

\* A token and the buckets it enables.
ParseTokens ==
    { [text |-> n.name, buckets |-> {n.bucket}] : n \in ParseNames } \cup
    { [text |-> Append(n.name, "+"), buckets |-> n.bucket..7] : n \in ParseNames }

\* An enable specification and the buckets it enables.
ParseCases ==
    ParseTokens \cup
    { [text |-> a.text \o <<sep>> \o b.text, buckets |-> a.buckets \cup b.buckets] :
        a \in ParseTokens, b \in ParseTokens, sep \in SEPARATORS }

\* Tokens that are not the full name of a severity: a bare '+', the name of
\* the first row of the table, prefixes of names, and an unknown name.
PrefixEnables ==
    { <<"+">>, <<"d","e","f","a","u","l","t">>, <<"d">>, <<"n">>,
      <<"i","n","f">>, <<"w","+">>, <<"b","o","g","u","s">> }

NextParse ==
    \/ /\ n_cfg < MaxCfg
       /\ \E c \in ParseCases : qd_log_entity(Entity(MODULE_HTTP, NULL, c.text, -1, -1))
    \/ /\ n_cfg < MaxCfg
       /\ \E e \in PrefixEnables : qd_log_entity(Entity(MODULE_HTTP, NULL, e, -1, -1))

SpecParse == Init /\ [][NextParse]_vars

\* Threads that emit concurrently on one source: TRACE is filtered out, INFO
\* passes and is inserted into the history.
ConcLevels == {QD_LOG_TRACE, QD_LOG_INFO}

NextConc ==
    \/ /\ n_emit < MaxEmit
       /\ \E t \in Threads, level \in ConcLevels :
             emit_call(t, logging_log_source, level, NULL)
    \/ \E t \in Threads : emit_count_read(t)
    \/ \E t \in Threads : emit_count_write(t)
    \/ \E t \in Threads : emit_enabled(t)
    \/ \E t \in Threads : emit_write_sink(t)
    \/ \E t \in Threads : emit_write_line(t)
    \/ \E t \in Threads : emit_lock(t)
    \/ \E t \in Threads : emit_insert(t)
    \/ \E t \in Threads : emit_evict(t)
    \/ \E t \in Threads : emit_unlock(t)

SpecConc == Init /\ [][NextConc]_vars

\* Emit calls of threads while the management thread re-points outputs.  An
\* update runs under log_source_lock, which qd_vlog_impl never takes: it is
\* one step that can fall between any two steps of an emit call.
RaceEntities ==
    { Entity(MODULE_default, SINK_STDOUT, <<"absent">>, -1, -1),
      Entity(MODULE_default, SINK_STDERR, <<"absent">>, -1, -1),
      Entity(SOURCE_LOGGING, SINK_SYSLOG, <<"absent">>, -1, -1) }

NextRace ==
    \/ /\ n_emit < MaxEmitCfg
       /\ \E t \in Threads, source \in {default_log_source, logging_log_source} :
             emit_call(t, source, QD_LOG_INFO, NULL)
    \/ \E t \in Threads : emit_count_read(t)
    \/ \E t \in Threads : emit_count_write(t)
    \/ \E t \in Threads : emit_enabled(t)
    \/ \E t \in Threads : emit_write_sink(t)
    \/ \E t \in Threads : emit_write_line(t)
    \/ \E t \in Threads : emit_lock(t)
    \/ \E t \in Threads : emit_insert(t)
    \/ \E t \in Threads : emit_evict(t)
    \/ \E t \in Threads : emit_unlock(t)
    \/ n_cfg < MaxCfg /\ \E entity \in RaceEntities : qd_log_entity(entity)

SpecRace == Init /\ [][NextRace]_vars

\* The recent-entries query of the management thread while a thread emits
\* more entries than the history holds.
QueryLimits == {-1, 1}

NextQuery ==
    \/ n_emit < MaxEmit /\ emit_call(1, logging_log_source, QD_LOG_INFO, NULL)
    \/ emit_count_read(1)
    \/ emit_count_write(1)
    \/ emit_enabled(1)
    \/ emit_write_sink(1)
    \/ emit_write_line(1)
    \/ emit_lock(1)
    \/ emit_insert(1)
    \/ emit_evict(1)
    \/ emit_unlock(1)
    \/ \E limit \in QueryLimits : recent_begin(limit)
    \/ recent_visit
    \/ recent_return

SpecQuery == Init /\ [][NextQuery]_vars

\* Shutdown after the operations: updates of outputs (shared sinks, files,
\* failures), resets, created sources and emits, then qd_log_finalize, after
\* which nothing runs.
ShutdownEntities ==
    { Entity(m, o, <<"absent">>, -1, -1) :
        m \in {MODULE_default, MODULE_HTTP},
        o \in {SINK_STDERR, SINK_SYSLOG, LogFile, BadFile} }

NextShutdown ==
    \/ /\ last.op # "finalize" /\ n_cfg < MaxCfg
       /\ \E entity \in ShutdownEntities : qd_log_entity(entity)
    \/ /\ last.op # "finalize" /\ n_cfg < MaxCfg
       /\ \E module \in {MODULE_default, MODULE_HTTP} : qd_log_source_reset(module)
    \/ /\ last.op # "finalize" /\ n_cfg < MaxCfg
       /\ qd_log_source(MODULE_HTTP)
    \/ /\ last.op # "finalize" /\ n_emit < MaxEmitCfg
       /\ \E source \in 1..Len(source_list) : qd_vlog_impl(source, QD_LOG_INFO, NULL)
    \/ /\ last.op # "finalize"
       /\ qd_log_finalize

SpecShutdown == Init /\ [][NextShutdown]_vars

\* ------------------------------------------------------------------ claims

\* The bucket of a valid level: TRACE..CRITICAL are the 1st..7th.
ValidLevels == <<QD_LOG_TRACE, QD_LOG_DEBUG, QD_LOG_INFO, QD_LOG_NOTICE,
                 QD_LOG_WARNING, QD_LOG_ERROR, QD_LOG_CRITICAL>>

Bucket(level) == CHOOSE i \in 1..7 : ValidLevels[i] = level

IsValidLevel(level) == \E i \in 1..7 : ValidLevels[i] = level

\* A step that is one emit call.
EmitStep == n_emit' = n_emit + 1 /\ last'.op = "emit"

\* C1: every emit call at a valid level adds exactly one to the histogram
\* bucket of that level on that source and changes no other bucket of any
\* source, whether or not the level passes the filter.
C1_EmitCountsOnce ==
    [][EmitStep /\ IsValidLevel(last'.level) =>
          /\ Len(source_list') = Len(source_list)
          /\ \A s \in 1..Len(source_list), b \in 1..7 :
                source_list'[s].severity_histogram[b] =
                    source_list[s].severity_histogram[b] +
                    (IF s = last'.src /\ b = Bucket(last'.level) THEN 1 ELSE 0)]_vars

\* C1's case: as many TRACE emits as the run allows on a source filtered to
\* INFO and above are all counted, and none of them entered the history.
C1_Witness ==
    /\ last.op = "emit" /\ last.level = QD_LOG_TRACE /\ last.src = 2
    /\ source_list[1].mask = 124 /\ source_list[2].mask = -1
    /\ source_list[2].severity_histogram[1] = MaxEmit
    /\ emitted = <<>>

\* The last n elements of a sequence (all of it when it is shorter).
LastN(seq, n) == SubSeq(seq, Len(seq) - Min(n, Len(seq)) + 1, Len(seq))

\* C4: the history holds exactly the most recent min(n, LIST_MAX) inserted
\* entries, oldest first.
C4_HistoryIsRecentSuffix == entries = LastN(emitted, LIST_MAX)

\* C4's case: one more passing emit than the capacity; the first is gone.
C4_Witness ==
    /\ Len(emitted) = LIST_MAX + 1
    /\ Len(entries) = LIST_MAX
    /\ \A i \in 1..Len(entries) : entries[i] # emitted[1]

\* What identifies an entry in a query result.
Ident(e) == [module |-> e.module, text |-> e.text, file |-> e.file, line |-> e.line]

Idents(seq) == [i \in 1..Len(seq) |-> Ident(seq[i])]

\* C5: a query with a positive limit returns the min(limit, size) most
\* recently appended entries, oldest first.
C5_RecentPositive ==
    last.op = "recent" /\ last.limit > 0 =>
        /\ Len(last.result) = Min(last.limit, Len(entries))
        /\ Idents(last.result) = Idents(LastN(emitted, Min(last.limit, Len(entries))))

\* C5's case: recent(2) after three passing emits returns the 2nd and 3rd.
C5_Witness ==
    /\ last.op = "recent" /\ last.limit = 2
    /\ Len(emitted) = 3
    /\ Idents(last.result) = <<Ident(emitted[2]), Ident(emitted[3])>>

\* C6 as claimed: limit 0 and every negative limit return all the entries.
C6_RecentNonPositiveAll ==
    last.op = "recent" /\ last.limit <= 0 => Idents(last.result) = Idents(entries)

\* C6 amended: a negative limit returns all the entries, oldest first, and
\* limit 0 returns the empty list.
C6_RecentNegativeAllZeroNone ==
    /\ last.op = "recent" /\ last.limit < 0 => Idents(last.result) = Idents(entries)
    /\ last.op = "recent" /\ last.limit = 0 => last.result = <<>>

\* C6's case: a negative limit on a full history.
C6_Witness ==
    /\ last.op = "recent" /\ last.limit < 0
    /\ Len(entries) = LIST_MAX
    /\ Len(last.result) = LIST_MAX

\* Whether the bit of a level is in a mask (all bits when the mask is -1).
InMask(bit, mask) == mask = -1 \/ (mask \div bit) % 2 = 1

\* A field of a source as an emit call resolves it at the time of the call:
\* the source's own value when set, else the DEFAULT source's current value.
EffMask(list, s) ==
    IF list[s].mask # -1 THEN list[s].mask ELSE list[default_log_source].mask

EffTimestamp(list, s) ==
    IF list[s].timestamp # -1 THEN list[s].timestamp
                               ELSE list[default_log_source].timestamp

EffCallsite(list, s) ==
    IF list[s].source # -1 THEN list[s].source ELSE list[default_log_source].source

EffSink(list, s) ==
    IF list[s].sink # NULL THEN list[s].sink ELSE list[default_log_source].sink

\* C2: an emit call whose level is not in the effective mask changes nothing
\* in the history and writes to no sink; one whose level is in it appends
\* exactly one entry, the one of this call, at the newest end.
C2_FilterDecidesAppend ==
    [][EmitStep =>
          IF InMask(last'.level, EffMask(source_list, last'.src))
          THEN /\ Len(emitted') = Len(emitted) + 1
               /\ \E e \in {emitted'[Len(emitted')]} :
                     /\ e.text = n_emit' /\ e.level = last'.level
                     /\ e.module = source_list[last'.src].module
                     /\ entries' = LastN(Append(entries, e), LIST_MAX)
          ELSE /\ entries' = entries
               /\ emitted' = emitted
               /\ ~last'.io.written]_vars

\* C2's case: LOGGING has its own mask (ERROR and above), DEFAULT still lets
\* INFO pass; an INFO emit on LOGGING is dropped without a write.
C2_Witness ==
    /\ last.op = "emit" /\ last.src = 2 /\ last.level = QD_LOG_INFO
    /\ source_list[2].mask = 96 /\ source_list[1].mask = 124
    /\ emitted = <<>> /\ ~last.io.written

\* C7: a passing emit renders with, and writes to, what the source's fields
\* resolve to at the time of the call: its own value where set, the DEFAULT
\* source's current value where unset.
C7_FallbackAtEmitTime ==
    [][EmitStep /\ InMask(last'.level, EffMask(source_list, last'.src)) =>
          IF EffSink(source_list, last'.src) = NULL
          THEN ~last'.io.written
          ELSE /\ last'.io.written
               /\ last'.io.sink = EffSink(source_list, last'.src)
               /\ last'.io.timestamp = (EffTimestamp(source_list, last'.src) # 0)
               /\ last'.io.callsite = (EffCallsite(source_list, last'.src) # 0
                                       /\ last'.file # NULL)]_vars

\* C7's case: LOGGING, created at initialization with every field unset, emits
\* TRACE after DEFAULT was switched to trace-only and to stdout: the entry
\* passes and goes to stdout, as DEFAULT says now and not as it said then.
C7_Witness ==
    /\ last.op = "emit" /\ last.src = 2 /\ last.level = QD_LOG_TRACE
    /\ source_list[2].mask = -1 /\ source_list[2].sink = NULL
    /\ source_list[2].timestamp = -1 /\ source_list[2].source = -1
    /\ source_list[1].mask = 1 /\ source_list[1].sink = SINK_STDOUT
    /\ last.io.written /\ last.io.sink = SINK_STDOUT

\* A step that is one update call.
EntityStep == n_cfg' = n_cfg + 1 /\ last'.op = "entity"

\* The target source as it was before an update (as created, when the update
\* itself creates it).
Pre(src) ==
    IF src <= Len(source_list) THEN source_list[src]
    ELSE [module |-> <<>>, mask |-> -1, timestamp |-> -1, source |-> -1,
          sink |-> NULL, severity_histogram |-> ZeroHistogram]

\* An output that names a file the environment cannot open.
Unopenable(output) ==
    output \notin {SINK_STDERR, SINK_STDOUT, SINK_SYSLOG} /\ output \notin Writable

\* C8 as claimed: an update whose enable specification holds an unrecognized
\* level name returns a configuration error and leaves the mask as it was.
C8_InvalidEnableKeepsMask ==
    [][EntityStep /\ last'.entity.has_enable /\ enable_mask(last'.entity.enable).error =>
          /\ last'.code = QD_ERROR_CONFIG
          /\ source_list'[last'.src].mask = Pre(last'.src).mask]_vars

\* C9: an update whose output names a file that cannot be opened returns an
\* error, leaves the sink registry (its sinks and their reference counts)
\* as it was and leaves the source's sink reference as it was.
C9_FailedOutputRegistersNothing ==
    [][EntityStep /\ last'.entity.has_output /\ Unopenable(last'.entity.output) =>
          /\ last'.code = QD_ERROR_CONFIG
          /\ sink_list' = sink_list
          /\ streams' = streams /\ syslog_open' = syslog_open
          /\ source_list'[last'.src].sink = Pre(last'.src).sink]_vars

\* C9's case: a source that holds the syslog sink is pointed to a file that
\* cannot be opened; it keeps syslog.
C9_Witness ==
    /\ last.op = "entity" /\ last.entity.output = BadFile
    /\ last.code = QD_ERROR_CONFIG
    /\ source_list[last.src].sink = SINK_SYSLOG
    /\ \E i \in 1..Len(sink_list) : sink_list[i].name = SINK_SYSLOG

\* C10: the fields are applied in the order output, enable, timestamp,
\* source; a failing field stops the call, the fields after it keep their
\* old values and the fields before it keep their new ones.
C10_FieldOrderNoRollback ==
    [][EntityStep =>
        LET e    == last'.entity
            pre  == Pre(last'.src)
            post == source_list'[last'.src]
            outputFails == e.has_output /\ Unopenable(e.output)
            enableFails == ~outputFails /\ e.has_enable /\ enable_mask(e.enable).error
            forced == e.has_output /\ e.output = SINK_SYSLOG
        IN /\ outputFails =>
                /\ last'.code = QD_ERROR_CONFIG
                /\ post.mask = pre.mask
                /\ post.timestamp = pre.timestamp
                /\ post.source = pre.source
           /\ enableFails =>
                /\ last'.code = QD_ERROR_CONFIG
                /\ e.has_output => post.sink = e.output
                /\ post.timestamp = (IF forced THEN 0 ELSE pre.timestamp)
                /\ post.source = pre.source
           /\ ~outputFails /\ ~enableFails =>
                /\ last'.code = QD_ERROR_NONE
                /\ e.has_output => post.sink = e.output
                /\ e.has_enable => post.mask = enable_mask(e.enable).mask
                /\ post.timestamp = (IF e.has_timestamp THEN e.timestamp
                                     ELSE IF forced THEN 0 ELSE pre.timestamp)
                /\ post.source = (IF e.has_source THEN e.source ELSE pre.source)]_vars

\* C10's case: output syslog is applied, enable fails, the timestamp and
\* source fields of the same request are not applied.
C10_Witness ==
    /\ last.op = "entity" /\ last.code = QD_ERROR_CONFIG
    /\ last.entity.output = SINK_SYSLOG /\ last.entity.enable = EnableBogus
    /\ last.entity.has_timestamp /\ last.entity.timestamp = 1
    /\ last.entity.has_source /\ last.entity.source = 1
    /\ source_list[last.src].sink = SINK_SYSLOG
    /\ source_list[last.src].timestamp = 0
    /\ source_list[last.src].source # 1

\* C3: whenever the history lock is free the history holds at most LIST_MAX
\* entries, however the emit calls of the threads interleave.
C3_HistoryBounded == log_lock = 0 => Len(entries) <= LIST_MAX

\* C3's case: more entries were inserted than the capacity, by threads whose
\* calls overtook each other (a later call inserted first); the lock is free
\* and the history is full.
C3_Witness ==
    /\ log_lock = 0
    /\ Len(emitted) > LIST_MAX
    /\ Len(entries) = LIST_MAX
    /\ \E i \in 1..(Len(emitted) - 1) : emitted[i].text > emitted[i + 1].text

\* A step that is one reset call.
ResetStep == n_cfg' = n_cfg + 1 /\ last'.op = "reset"

\* C11: after reset(module) the source's mask and flags are unset, its sink
\* reference is empty and its seven buckets are zero; a following
\* get-or-create of the module returns that source and adds none; the reset
\* of an existing module keeps the registry's length, the source's position
\* and name, and every other source.
C11_ResetClearsKeepsIdentity ==
    [][ResetStep =>
        LET src   == last'.src
            post  == source_list'[src]
            found == lookup_log_source_lh(source_list, default_log_source, last'.module)
            again == qd_log_source_lh(source_list', default_log_source', last'.module)
        IN /\ post.mask = -1 /\ post.timestamp = -1 /\ post.source = -1
           /\ post.sink = NULL
           /\ \A b \in 1..7 : post.severity_histogram[b] = 0
           /\ again.src = src /\ again.list = source_list'
           /\ found # 0 =>
                /\ src = found
                /\ Len(source_list') = Len(source_list)
                /\ post.module = source_list[src].module
                /\ \A i \in 1..Len(source_list) : i # src => source_list'[i] = source_list[i]]_vars

\* C11's case: LOGGING was given the stdout sink, TRACE and both flags, an
\* emit at TRACE was counted on it and passed, and then it was reset.
C11_Witness ==
    /\ last.op = "reset" /\ last.src = logging_log_source
    /\ n_cfg = 2
    /\ \E i \in 1..Len(sink_list) : sink_list[i].name = SINK_STDOUT
    /\ Len(emitted) = 1
    /\ emitted[1].module = SOURCE_LOGGING /\ emitted[1].level = QD_LOG_TRACE
    /\ source_list[logging_log_source].severity_histogram = ZeroHistogram

\* The number of sources whose sink reference is the sink of that name.
Holders(name) == Cardinality({s \in 1..Len(source_list) : source_list[s].sink = name})

\* C12 as claimed: between the calls every registered sink's reference count
\* is the number of sources that refer to it (so a sink that a reset leaves
\* without holder is gone from the registry).
C12_RefcountsExact ==
    \A i \in 1..Len(sink_list) : sink_list[i].refcount = Holders(sink_list[i].name)

\* A sink of the registry and what it writes to are in use: it is counted,
\* the system log is open for a syslog sink, the file is open for a file
\* sink and for stderr.  (Whether the stdout stream is open is C14's subject.)
SinkLive(sink) ==
    /\ sink.refcount >= 1
    /\ sink.syslog => syslog_open
    /\ sink.file # NULL /\ sink.file # "stdout" => sink.file \in streams

C14_StandardStreamsStayOpen == {"stdout", "stderr"} \subseteq streams

\* C15 as claimed: in every state the DEFAULT source is registered and holds
\* concrete values: a mask that is not the unset value, both flags booleans,
\* and a sink.
C15_DefaultConcrete ==
    /\ default_log_source \in 1..Len(source_list)
    /\ source_list[default_log_source].module = SOURCE_DEFAULT
    /\ source_list[default_log_source].mask # -1
    /\ source_list[default_log_source].timestamp \in {0, 1}
    /\ source_list[default_log_source].source \in {0, 1}
    /\ source_list[default_log_source].sink # NULL

\* A step that is one call that gets or creates a source: qd_log_source,
\* qd_log_source_reset and qd_log_entity all go through qd_log_source_lh
\* while they hold log_source_lock, so the calls of concurrent threads happen
\* one after the other, in any order.
SourceStep == n_cfg' = n_cfg + 1 /\ last'.op \in {"source", "reset", "entity"}

\* C16: no two registered sources have names that are equal ignoring case;
\* a get-or-create returns the registered source whose name equals the
\* module ignoring case when there is one, and the DEFAULT source for any
\* spelling of DEFAULT, adding nothing; and right after it a get-or-create
\* under any spelling of the same name returns the same source, adding nothing.
C16_LookupIgnoresCase ==
    /\ [](\A i, j \in 1..Len(source_list) :
            i # j => ~strcasecmp_eq(source_list[i].module, source_list[j].module))
    /\ [][SourceStep =>
            /\ \A i \in 1..Len(source_list) :
                  strcasecmp_eq(source_list[i].module, last'.module) =>
                     last'.src = i /\ Len(source_list') = Len(source_list)
            /\ strcasecmp_eq(last'.module, SOURCE_DEFAULT) =>
                  last'.src = default_log_source /\ Len(source_list') = Len(source_list)
            /\ \A m \in SourceModules \cup {SOURCE_DEFAULT} :
                  strcasecmp_eq(m, last'.module) =>
                     qd_log_source_lh(source_list', default_log_source', m)
                        = [list |-> source_list', src |-> last'.src]]_vars

\* C16's case: the source HTTP was created, then looked up as "http": the
\* call returned the source created first and there are still three sources.
C16_Witness ==
    /\ last.op = "source" /\ last.module = MODULE_http
    /\ n_cfg = 2
    /\ Len(source_list) = 3
    /\ source_list[3].module = MODULE_HTTP
    /\ last.src = 3

\* C17 as claimed: once the concurrent emit calls on the LOGGING source have
\* all returned, the INFO bucket holds the number of INFO calls (each of
\* them passed the filter and was inserted) and the TRACE bucket the number
\* of TRACE calls (the other calls).
C17_HistogramExact ==
    (\A t \in Threads : threads[t].pc = "idle") =>
        /\ source_list[logging_log_source].severity_histogram[Bucket(QD_LOG_INFO)]
              = Len(emitted)
        /\ source_list[logging_log_source].severity_histogram[Bucket(QD_LOG_TRACE)]
              = n_emit - Len(emitted)

\* The texts (call numbers) of the query's result for the whole history.
RecentTexts ==
    LET r == recent_loop(entries, Len(entries), -1, <<>>)
    IN [i \in 1..Len(r) |-> r[i].text]

\* C18: when a call has inserted its entry, the entry of every call that had
\* returned before this call began stands before it in the history, and in
\* the result of the recent-entries query, as long as both are retained.
C18_InsertionFollowsEmission ==
    \A t \in Threads :
        threads[t].pc \in {"evict", "unlock"} =>
            \A a \in threads[t].after :
                /\ \A i, j \in 1..Len(entries) :
                      entries[i].text = a /\ entries[j].text = threads[t].entry.text
                         => i < j
                /\ \A i, j \in 1..Len(RecentTexts) :
                      RecentTexts[i] = a /\ RecentTexts[j] = threads[t].entry.text
                         => i < j

\* C18's case: a call that began after another passing call had returned has
\* inserted its entry, and both entries are in the history.
C18_Witness ==
    \E t \in Threads :
        /\ threads[t].pc = "unlock"
        /\ \E a \in threads[t].after, i, j \in 1..Len(entries) :
              entries[i].text = a /\ entries[j].text = threads[t].entry.text

\* The mask whose bits are those of the buckets: bucket b is bit 2^(b-1).
RECURSIVE MaskOf(_)
MaskOf(buckets) ==
    IF buckets = {} THEN 0
    ELSE LET b == CHOOSE x \in buckets : TRUE
         IN 2^(b - 1) + MaskOf(buckets \ {b})

\* C19: the mask an update stores for an enable specification is the OR of
\* the single bit of every exact level name and the at-or-above bits of
\* every name with '+', whatever the letter-case and the separator; "info+"
\* gives 124 and "info" gives 4.
C19_EnableMaskIsOrOfTokens ==
    last.op = "entity" /\ last.entity.has_enable =>
        /\ \A c \in ParseCases :
              last.entity.enable = c.text =>
                 /\ enable_mask(c.text) = [mask |-> MaskOf(c.buckets), error |-> FALSE]
                 /\ source_list[last.src].mask = MaskOf(c.buckets)
                 /\ last.code = QD_ERROR_NONE
        /\ last.entity.enable = <<"i","n","f","o","+">> => source_list[last.src].mask = 124
        /\ last.entity.enable = <<"i","n","f","o">> => source_list[last.src].mask = 4

\* C19's case: "INFO;Error+" was parsed: INFO alone and ERROR, CRITICAL.
C19_Witness ==
    /\ last.op = "entity"
    /\ last.entity.enable = <<"I","N","F","O",";","E","r","r","o","r","+">>
    /\ source_list[last.src].mask = 100

\* C20 as claimed: a thread that has resolved its sink and has not yet
\* written the line holds a sink that is still registered (not freed).
C20_NoUseAfterFree ==
    \A t \in Threads : threads[t].pc = "write_line" => ~SinkFreed(t)

\* C21 as claimed: the mask, the sink and the two flags an emit call used
\* are the effective values of its source in one of the registry states the
\* call lived through (when there is no sink the call reads no flag).
C21_ConsistentSnapshot ==
    \A t \in Threads :
        threads[t].pc = "lock" =>
            \E s \in threads[t].seen :
                /\ s.mask = threads[t].mask
                /\ s.sink = threads[t].sink
                /\ threads[t].sink # NULL =>
                      /\ s.timestamp = threads[t].timestamp
                      /\ s.callsite = threads[t].callsite

\* C22 as claimed: the entry the query is about to read is in the history
\* (no eviction has removed and freed it).
C22_QueryVisitsLiveEntries ==
    query.pc = "walk" /\ query.entry # 0 /\ query.limit # 0 =>
        EntryAt(query.entry) # 0

\* The name write_log renders for a level bit.
RenderedName(bit) == levels[level_for_bit(bit) + 1].name

\* C23 as claimed: every row of a query result carries, as its level name,
\* the name of the level its entry was emitted at, and never the absent name.
C23_RecentReportsLevelName ==
    last.op = "recent" =>
        \A i \in 1..Len(last.result) :
            \E k \in 1..Len(emitted) :
                /\ emitted[k].text = last.result[i].text
                /\ IsValidLevel(emitted[k].level)
                /\ last.result[i].level = RenderedName(emitted[k].level)
                /\ last.result[i].level # <<>>

\* C24: after a successful update whose output is the system log, the
\* source's timestamp flag is 0 (off, not unset) when the update has no
\* timestamp field, and the value of the timestamp field when it has one.
C24_SyslogForcesTimestampOff ==
    [][EntityStep /\ last'.code = QD_ERROR_NONE
         /\ last'.entity.has_output /\ last'.entity.output = SINK_SYSLOG =>
          /\ source_list'[last'.src].sink = SINK_SYSLOG
          /\ source_list'[last'.src].timestamp =
                IF last'.entity.has_timestamp THEN last'.entity.timestamp ELSE 0]_vars

\* C24's case: the first update points DEFAULT, whose timestamp flag was on,
\* to the system log without a timestamp field; the flag is now off.
C24_Witness ==
    /\ last.op = "entity" /\ last.code = QD_ERROR_NONE
    /\ n_cfg = 1
    /\ last.src = default_log_source
    /\ last.entity.output = SINK_SYSLOG /\ ~last.entity.has_timestamp
    /\ source_list[default_log_source].timestamp = 0

\* C25 as claimed: an update with an enable specification that returns no
\* error stores a mask within the bits of the seven levels (0..127), never
\* the unset value.
C25_AcceptedMaskWithinAllBits ==
    last.op = "entity" /\ last.entity.has_enable /\ last.code = QD_ERROR_NONE =>
        source_list[last.src].mask \in 0..ALL_BITS

\* C26: qd_log_finalize ends with the source registry, the history and the
\* sink registry empty, the system log and every opened file closed, and it
\* released exactly as many references as the sinks counted: every count
\* reached zero.
C26_FinalizeEmptiesAll ==
    [][last'.op = "finalize" /\ last.op # "finalize" =>
          /\ source_list' = <<>>
          /\ entries' = <<>>
          /\ sink_list' = <<>>
          /\ ~syslog_open'
          /\ LogFile \notin streams'
          /\ last'.result[1] + last'.result[2] = TotalRefcount(sink_list)]_vars

\* C26's case: shutdown after an emit that entered the history and after a
\* reset that left a sink counted without holder: the last loop had to
\* release it.
C26_Witness ==
    /\ last.op = "finalize"
    /\ Len(emitted) >= 1
    /\ n_cfg >= 1
    /\ last.result[2] >= 1
    /\ sink_list = <<>> /\ source_list = <<>> /\ entries = <<>>

====
